---- MODULE Spec2Model ----
(***************************************************************************)
(* Command center of the console: per-registrant command registry,         *)
(* availability overlay and the chord matcher derived from them            *)
(* (src/src/lib/commandCenter/commands.ts).                                *)
(*                                                                         *)
(* Strings are sequences of character codes, so that join, toUpperCase,    *)
(* charCodeAt and includes are computed as the code computes them.         *)
(***************************************************************************)
EXTENDS Integers, Sequences, FiniteSets, TLC

\* ------------------------------------------------------------------ bounds
\* At most MaxHist key codes are kept in recentKeyCodes between two resets.
MaxHist == 2
\* At most MaxOld superseded handler closures with a pending rankAndExecute.
MaxOld == 1

\* ------------------------------------------------------------------ strings
\* Number.prototype.toString for a key code; -1 stands for NaN ("NaN").
RECURSIVE DecimalString(_)
DecimalString(n) ==
    IF n < 0 THEN <<78, 97, 78>>
    ELSE IF n < 10 THEN <<48 + n>>
    ELSE DecimalString(n \div 10) \o <<48 + (n % 10)>>

\* Array.prototype.join(sep) on an array of strings.
RECURSIVE Join(_, _)
Join(strs, sep) ==
    IF Len(strs) = 0 THEN <<>>
    ELSE IF Len(strs) = 1 THEN strs[1]
    ELSE strs[1] \o sep \o Join(Tail(strs), sep)

\* String.prototype.includes
Includes(s, t) ==
    \E i \in 0..(Len(s) - Len(t)) : SubSeq(s, i + 1, i + Len(t)) = t

\* key.toUpperCase().charCodeAt(0): NaN (-1) for the empty label.
UpperCharCode(key) ==
    IF Len(key) = 0 THEN -1
    ELSE IF key[1] >= 97 /\ key[1] <= 122 THEN key[1] - 32
    ELSE key[1]

\* keys.map((key) => key.toUpperCase().charCodeAt(0)).join('')
CommandKeyCodes(keys) ==
    Join([i \in 1..Len(keys) |-> DecimalString(UpperCharCode(keys[i]))], <<>>)

\* recentKeyCodes.join('')
JoinCodes(codes) ==
    Join([i \in 1..Len(codes) |-> DecimalString(codes[i])], <<>>)

\* ------------------------------------------------------------------ commands
\* Command objects; a command's name is its object identity.
\*   g = 103, d = 100, w = 119, D = 68
Keyed(keys, ctrl, shift, alt, disabled, forceEnable) ==
    [keyed |-> TRUE, keys |-> keys, ctrl |-> ctrl, shift |-> shift, alt |-> alt,
     disabled |-> disabled, forceEnable |-> forceEnable]

Plain(disabled, forceEnable) ==
    [keyed |-> FALSE, keys |-> <<>>, ctrl |-> FALSE, shift |-> FALSE, alt |-> FALSE,
     disabled |-> disabled, forceEnable |-> forceEnable]

CommandNames == {"A", "B", "X1", "X2", "Dd", "F", "P", "U", "M", "DG", "W", "CG"}

Cmd ==
    [n \in CommandNames |->
        CASE n = "A"  -> Keyed(<< <<103>>, <<100>> >>, FALSE, FALSE, FALSE, FALSE, FALSE)
          [] n = "B"  -> Keyed(<< <<100>> >>, FALSE, FALSE, FALSE, FALSE, FALSE)
          [] n = "X1" -> Keyed(<< <<100>> >>, TRUE, FALSE, FALSE, FALSE, FALSE)
          [] n = "X2" -> Keyed(<< <<100>> >>, FALSE, TRUE, FALSE, FALSE, FALSE)
          [] n = "Dd" -> Keyed(<< <<103>> >>, FALSE, FALSE, FALSE, TRUE, FALSE)
          [] n = "F"  -> Keyed(<< <<103>> >>, FALSE, FALSE, FALSE, TRUE, TRUE)
          [] n = "P"  -> Plain(FALSE, FALSE)
          [] n = "U"  -> Keyed(<< <<68>> >>, FALSE, FALSE, FALSE, FALSE, FALSE)
          [] n = "M"  -> Keyed(<< <<103, 100>> >>, FALSE, FALSE, FALSE, FALSE, FALSE)
          [] n = "DG" -> Keyed(<< <<100>>, <<103>> >>, FALSE, FALSE, FALSE, FALSE, FALSE)
          [] n = "W"  -> Keyed(<< <<119>> >>, FALSE, FALSE, FALSE, FALSE, FALSE)
          [] n = "CG" -> Keyed(<< <<103>> >>, TRUE, FALSE, FALSE, FALSE, FALSE)]

\* Registrant ids generated by registerCommands.subscribe / disableCommands.subscribe.
RegistrantIds == {"r1", "r2"}
DisablerIds == {"d1", "d2"}

\* The command lists a registrant may hand to its setter: each registrant owns
\* its command objects.
CommandLists ==
    [id \in RegistrantIds |->
        IF id = "r1" THEN { <<"A">>, <<"X1", "X2">> }
        ELSE { <<"B">>, <<"Dd", "F", "P">> }]

\* Command lists whose key labels are an upper-case letter (U: 'D'), one label
\* of two characters (M: 'gd'), and a letter whose code 87 appears across the
\* codes of two others (W: 'w', DG: 'd' then 'g', 68 then 71); and CG, ctrl+g,
\* which shares no key with B.
LabelLists ==
    [id \in RegistrantIds |->
        IF id = "r1" THEN { <<"U">>, <<"M">>, <<"DG">>, <<"CG">> }
        ELSE { <<"B">>, <<"W">> }]

\* Keyboard events: keyCode (G = 71, D = 68), modifier flags, target kind.
KeyCodes == {71, 68}
NoModifiers == [ctrlKey |-> FALSE, metaKey |-> FALSE, shiftKey |-> FALSE, altKey |-> FALSE]
ModifierStates ==
    { NoModifiers,
      [NoModifiers EXCEPT !.ctrlKey = TRUE],
      [NoModifiers EXCEPT !.metaKey = TRUE],
      [NoModifiers EXCEPT !.shiftKey = TRUE] }
TagNames == {"INPUT", "BODY"}
Events ==
    { [keyCode |-> k, ctrlKey |-> m.ctrlKey, metaKey |-> m.metaKey,
       shiftKey |-> m.shiftKey, altKey |-> m.altKey, tagName |-> t] :
        k \in KeyCodes, m \in ModifierStates, t \in TagNames }

\* ------------------------------------------------------------------ state
VARIABLES
    commandMap,      \* Map<string, Command[]> in insertion order: Seq of [id, list]
    disabledMap,     \* Map<string, boolean> in insertion order: Seq of [id, flag]
    commandsArr,     \* the live handler closure's flattened snapshot
    enabled,         \* the live handler closure's commandsEnabled value
    recentKeyCodes,  \* KeyHistory of the live closure
    validCommands,   \* CandidateSet of the live closure (an array, in push order)
    resetTimer,      \* debounce(reset, 2000): "off" | "pending" | "due"
    rankTimer,       \* debounce(rankAndExecute, 200): "off" | "pending" | "due"
    oldTimers,       \* pending rankAndExecute timers of superseded closures (FIFO),
                     \* each with the validCommands its closure holds
    calls,           \* callbacks invoked by the last step, in order
    fault,           \* the last step raised a TypeError
    windowCalls,     \* callbacks invoked since KeyHistory and CandidateSet were last both empty
    closedCalls,     \* most callbacks invoked in one window among those the last step closed
    lastOp           \* the last step, when it is one of Tracked ("other" otherwise;
                     \* "keydownInput" is a keydown on a text-entry control),
                     \* and for a set or release of commands or of a flag whether
                     \* the id had an entry before it

vars == <<commandMap, disabledMap, commandsArr, enabled, recentKeyCodes, validCommands,
          resetTimer, rankTimer, oldTimers, calls, fault, windowCalls, closedCalls, lastOp>>

Tracked == {"resetFire", "keydownInput", "setCommands", "releaseCommands", "releaseDisabled"}
DidTo(op, had) ==
    lastOp' = IF op \in Tracked THEN [op |-> op, had |-> had]
              ELSE [op |-> "other", had |-> FALSE]
Did(op) == DidTo(op, FALSE)

\* ------------------------------------------------------------------ stores
\* Map.prototype.set: replaces in place, appends a new key at the end.
MapHas(m, id) == \E i \in 1..Len(m) : m[i].id = id

\* A set that moves a replaced key to the end.
MapSetReinserts(m, id, v) ==
    Append(SelectSeq(m, LAMBDA e : e.id # id), [id |-> id, v |-> v])

MapSet(m, id, v) ==
    IF MapHas(m, id)
    THEN [i \in 1..Len(m) |-> IF m[i].id = id THEN [id |-> id, v |-> v] ELSE m[i]]
    ELSE Append(m, [id |-> id, v |-> v])

\* A delete that empties the map.
MapDeleteClears(m, id) == <<>>

\* A delete by position that drops the last entry when the id is not found.
MapDeleteSplice(m, id) ==
    IF MapHas(m, id) THEN SelectSeq(m, LAMBDA e : e.id # id)
    ELSE SubSeq(m, 1, Len(m) - 1)

\* Map.prototype.delete
MapDelete(m, id) == SelectSeq(m, LAMBDA e : e.id # id)

\* Array.from(map.values())
MapValues(m) == [i \in 1..Len(m) |-> m[i].v]

\* Array.prototype.flat
RECURSIVE Flat(_)
Flat(lists) == IF Len(lists) = 0 THEN <<>> ELSE lists[1] \o Flat(Tail(lists))

\* derived(commandMap): Array.from($commandMap.values()).flat()
Commands(m) == Flat(MapValues(m))

\* "some value is false" in place of "every value is false".
CommandsEnabledSome(m) == Len(m) = 0 \/ \E i \in 1..Len(m) : ~m[i].v

\* derived(disabledMap): every value is false
CommandsEnabled(m) == \A i \in 1..Len(m) : ~m[i].v

\* ------------------------------------------------------------------ helpers
\* isMac() of the platform helper: the console runs on a non-Mac platform, where
\* the ctrl-class modifier is the control key.
IsMac == FALSE

IsKeyedCommand(c) == Cmd[c].keyed

IsInputEvent(event) == event.tagName \in {"INPUT", "TEXTAREA", "SELECT"}

\* [meta, shift, alt].filter(Boolean).length
Modifiers(c) ==
    (IF Cmd[c].ctrl THEN 1 ELSE 0) + (IF Cmd[c].shift THEN 1 ELSE 0)
        + (IF Cmd[c].alt THEN 1 ELSE 0)

GetCommandRank(c) == Len(Cmd[c].keys) + Modifiers(c) * 10

\* The rank comparison the other way round.
HasDisputingRankFlipped(command, allCommands) ==
    \E i \in 1..Len(allCommands) :
        LET otherCommand == allCommands[i]
            keysString == Join(Cmd[command].keys, <<43>>)
            otherKeysString == Join(Cmd[otherCommand].keys, <<43>>)
        IN  /\ command # otherCommand
            /\ IsKeyedCommand(otherCommand)
            /\ (Includes(keysString, otherKeysString)
                    \/ Includes(otherKeysString, keysString))
            /\ GetCommandRank(command) >= GetCommandRank(otherCommand)

HasDisputing(command, allCommands) ==
    \E i \in 1..Len(allCommands) :
        LET otherCommand == allCommands[i]
            keysString == Join(Cmd[command].keys, <<43>>)
            otherKeysString == Join(Cmd[otherCommand].keys, <<43>>)
        IN  /\ command # otherCommand
            /\ IsKeyedCommand(otherCommand)
            /\ (Includes(keysString, otherKeysString)
                    \/ Includes(otherKeysString, keysString))
            /\ GetCommandRank(command) <= GetCommandRank(otherCommand)

\* Math.max(...numbers)
MathMax(numbers) == CHOOSE x \in numbers : \A y \in numbers : y <= x

\* The first candidate, whatever the ranks.
GetFirstCommand(valid) == IF Len(valid) = 0 THEN "undefined" ELSE valid[1]

\* "undefined" when validCommands is empty.
GetHighestPriorityCommand(valid) ==
    IF Len(valid) = 0 THEN "undefined"
    ELSE IF Len(valid) = 1 THEN valid[1]
    ELSE
        LET highestScore == MathMax({GetCommandRank(valid[i]) : i \in 1..Len(valid)})
            highestScoreCommands ==
                SelectSeq(valid, LAMBDA c : GetCommandRank(c) = highestScore)
            mostModifiers ==
                MathMax({Modifiers(highestScoreCommands[i]) :
                            i \in 1..Len(highestScoreCommands)})
            mostModifiersCommands ==
                SelectSeq(highestScoreCommands, LAMBDA c : Modifiers(c) = mostModifiers)
        IN  IF Len(highestScoreCommands) = 1 THEN highestScoreCommands[1]
            ELSE mostModifiersCommands[1]

\* ------------------------------------------------------------------ debounce
\* debounce(action, delay): a call (re)starts the delay, immediate() runs the
\* action now and cancels the pending fire.
DebounceCall(timer) == "pending"
DebounceCancel(timer) == "off"

\* ------------------------------------------------------------------ matcher
\* The closure state threaded through one handler run:
\*   hist, valid, reset, rank: recentKeyCodes, validCommands and the two timers
\*   calls, win, closed: the bookkeeping of calls, windowCalls, closedCalls
Max(a, b) == IF a >= b THEN a ELSE b

Callback(m, c) == [m EXCEPT !.calls = Append(@, c), !.win = @ + 1]

\* A reset body that empties validCommands only.
ResetBodyKeepsHistory(m) ==
    [m EXCEPT !.valid = <<>>, !.closed = Max(@, m.win), !.win = 0]

\* A reset body that empties recentKeyCodes only.
ResetBodyKeepsCandidates(m) ==
    [m EXCEPT !.hist = <<>>, !.closed = Max(@, m.win), !.win = 0]

\* The body of reset: both arrays are replaced by empty ones.
ResetBody(m) ==
    [m EXCEPT !.hist = <<>>, !.valid = <<>>, !.closed = Max(@, m.win), !.win = 0]

ResetImmediate(m) == [ResetBody(m) EXCEPT !.reset = DebounceCancel(m.reset)]

\* execute without the reset.immediate() after the callback.
ExecuteNoReset(command, m) ==
    IF HasDisputing(command, commandsArr)
    THEN [m EXCEPT !.valid = Append(@, command), !.rank = DebounceCall(m.rank)]
    ELSE Callback(m, command)

\* execute that defers every match to rankAndExecute.
ExecuteAlwaysDefers(command, m) ==
    [m EXCEPT !.valid = Append(@, command), !.rank = DebounceCall(m.rank)]

Execute(command, m) ==
    IF HasDisputing(command, commandsArr)
    THEN [m EXCEPT !.valid = Append(@, command), !.rank = DebounceCall(m.rank)]
    ELSE ResetImmediate(Callback(m, command))

\* The command's own disabled flag is not consulted.
EligibleIgnoresDisabled(c, event) ==
    Cmd[c].forceEnable \/ (enabled /\ ~IsInputEvent(event))

\* forceEnable overrides only the command's own disabled flag.
EligibleForceOnlyOwnFlag(c, event) ==
    (Cmd[c].forceEnable \/ ~Cmd[c].disabled) /\ enabled /\ ~IsInputEvent(event)

Eligible(c, event) ==
    Cmd[c].forceEnable \/ (~Cmd[c].disabled /\ enabled /\ ~IsInputEvent(event))

Matches(c, event, hist) ==
    LET isMetaPressed ==
            IF Cmd[c].ctrl THEN (IF IsMac THEN event.metaKey ELSE event.ctrlKey) ELSE TRUE
        isShiftPressed == IF Cmd[c].shift THEN event.shiftKey ELSE TRUE
        isAltPressed == IF Cmd[c].alt THEN event.altKey ELSE TRUE
        allKeysPressed == Includes(JoinCodes(hist), CommandKeyCodes(Cmd[c].keys))
    IN  allKeysPressed /\ isMetaPressed /\ isShiftPressed /\ isAltPressed

\* One iteration of the for loop over commandsArr.
Visit(c, event, m) ==
    IF ~IsKeyedCommand(c) THEN m
    ELSE IF ~Eligible(c, event) THEN m
    ELSE IF Matches(c, event, m.hist) THEN Execute(c, m)
    ELSE m

\* The iterations i..last of the for loop.
RECURSIVE LoopTo(_, _, _, _)
LoopTo(i, last, event, m) ==
    IF i > last THEN m
    ELSE LoopTo(i + 1, last, event, Visit(commandsArr[i], event, m))

Loop(i, event, m) == LoopTo(i, Len(commandsArr), event, m)

Closure ==
    [hist |-> recentKeyCodes, valid |-> validCommands, reset |-> resetTimer,
     rank |-> rankTimer, calls |-> <<>>, win |-> windowCalls, closed |-> 0]

Install(m) ==
    /\ recentKeyCodes' = m.hist
    /\ validCommands' = m.valid
    /\ resetTimer' = m.reset
    /\ rankTimer' = m.rank
    /\ calls' = m.calls
    /\ windowCalls' = m.win
    /\ closedCalls' = m.closed

\* The entry without the reset() call.
KeyDownEntryNoReset(event, m) ==
    [m EXCEPT !.hist = Append(@, event.keyCode)]

\* The handler's entry: push the key code, then reset().
KeyDownEntry(event, m) ==
    [m EXCEPT !.hist = Append(@, event.keyCode), !.reset = DebounceCall(m.reset)]

KeyDown(event) ==
    /\ Len(recentKeyCodes) < MaxHist
    /\ Install(Loop(1, event, KeyDownEntry(event, Closure)))
    /\ fault' = FALSE
    /\ Did(IF IsInputEvent(event) THEN "keydownInput" ELSE "keydown")
    /\ UNCHANGED <<commandMap, disabledMap, commandsArr, enabled, oldTimers>>

\* ------------------------------------------------------------------ timers
ResolutionDelay == 200
InactivityDelay == 2000

\* 200 ms pass since rankAndExecute was last called; the timers of superseded
\* closures were started earlier and have fired by then.
ResolutionElapse ==
    /\ rankTimer = "pending"
    /\ oldTimers = <<>>
    /\ rankTimer' = "due"
    /\ calls' = <<>> /\ fault' = FALSE /\ closedCalls' = 0
    /\ Did("resolutionElapse")
    /\ UNCHANGED <<commandMap, disabledMap, commandsArr, enabled, recentKeyCodes,
                   validCommands, resetTimer, oldTimers, windowCalls>>

\* The body of rankAndExecute.
RankAndExecuteBody(m) ==
    LET command == GetHighestPriorityCommand(m.valid)
    IN  ResetImmediate(Callback(m, command))

RankFire ==
    /\ rankTimer = "due"
    /\ IF GetHighestPriorityCommand(validCommands) = "undefined"
       THEN \* command.callback() on undefined: TypeError, reset.immediate() is not reached
            /\ fault' = TRUE
            /\ rankTimer' = "off"
            /\ calls' = <<>> /\ closedCalls' = 0
            /\ UNCHANGED <<recentKeyCodes, validCommands, resetTimer, windowCalls>>
       ELSE /\ Install([RankAndExecuteBody(Closure) EXCEPT !.rank = "off"])
            /\ fault' = FALSE
    /\ Did("rankFire")
    /\ UNCHANGED <<commandMap, disabledMap, commandsArr, enabled, oldTimers>>

\* The rankAndExecute timer of a superseded closure fires on that closure's own
\* validCommands; its reset.immediate() clears only that closure's arrays.
OldRankFire ==
    /\ oldTimers # <<>>
    /\ LET command == GetHighestPriorityCommand(Head(oldTimers))
           idle == recentKeyCodes = <<>> /\ validCommands = <<>>
       IN  IF command = "undefined"
           THEN fault' = TRUE /\ calls' = <<>> /\ UNCHANGED windowCalls
           ELSE /\ fault' = FALSE
                /\ calls' = <<command>>
                /\ windowCalls' = IF idle THEN windowCalls ELSE windowCalls + 1
    /\ oldTimers' = Tail(oldTimers)
    /\ closedCalls' = 0
    /\ Did("oldRankFire")
    /\ UNCHANGED <<commandMap, disabledMap, commandsArr, enabled, recentKeyCodes,
                   validCommands, resetTimer, rankTimer>>

\* 2000 ms pass since reset was last called. Every call of rankAndExecute is
\* preceded by a call of reset in the same keydown and ResolutionDelay is the
\* shorter delay, so no rankAndExecute timer is still pending by then.
InactivityElapse ==
    /\ resetTimer = "pending"
    /\ ResolutionDelay < InactivityDelay => (rankTimer = "off" /\ oldTimers = <<>>)
    /\ resetTimer' = "due"
    /\ calls' = <<>> /\ fault' = FALSE /\ closedCalls' = 0
    /\ Did("inactivityElapse")
    /\ UNCHANGED <<commandMap, disabledMap, commandsArr, enabled, recentKeyCodes,
                   validCommands, rankTimer, oldTimers, windowCalls>>

ResetFire ==
    /\ resetTimer = "due"
    /\ Install([ResetBody(Closure) EXCEPT !.reset = "off"])
    /\ fault' = FALSE
    /\ Did("resetFire")
    /\ UNCHANGED <<commandMap, disabledMap, commandsArr, enabled, oldTimers>>

\* ------------------------------------------------------------------ registry
\* derived([commandMap, commandsEnabled]): a new closure with fresh arrays and
\* timers replaces the live one; a pending rankAndExecute of the replaced
\* closure stays scheduled.
Derive(newCommandMap, newDisabledMap) ==
    /\ rankTimer # "off" => Len(oldTimers) < MaxOld
    /\ commandsArr' = Commands(newCommandMap)
    /\ enabled' = CommandsEnabled(newDisabledMap)
    /\ recentKeyCodes' = <<>>
    /\ validCommands' = <<>>
    /\ resetTimer' = "off"
    /\ rankTimer' = "off"
    /\ oldTimers' = IF rankTimer # "off" THEN Append(oldTimers, validCommands)
                    ELSE oldTimers
    /\ windowCalls' = 0
    /\ closedCalls' = windowCalls

Quiet == calls' = <<>> /\ fault' = FALSE

\* registerCommands.subscribe: the setter handed to the runner.
SetCommands(id, newCommands) ==
    /\ commandMap' = MapSet(commandMap, id, newCommands)
    /\ Derive(commandMap', disabledMap)
    /\ Quiet
    /\ DidTo("setCommands", MapHas(commandMap, id))
    /\ UNCHANGED disabledMap

\* registerCommands.subscribe: the returned release closure.
ReleaseCommands(id) ==
    /\ commandMap' = MapDelete(commandMap, id)
    /\ Derive(commandMap', disabledMap)
    /\ Quiet
    /\ DidTo("releaseCommands", MapHas(commandMap, id))
    /\ UNCHANGED disabledMap

\* The handler is re-derived only when commandsEnabled changes value.
OverlayUpdate(newDisabledMap) ==
    /\ disabledMap' = newDisabledMap
    /\ IF CommandsEnabled(newDisabledMap) # CommandsEnabled(disabledMap)
       THEN Derive(commandMap, newDisabledMap)
       ELSE /\ closedCalls' = 0
            /\ UNCHANGED <<commandsArr, enabled, recentKeyCodes, validCommands,
                           resetTimer, rankTimer, oldTimers, windowCalls>>
    /\ Quiet
    /\ UNCHANGED commandMap

\* disableCommands.subscribe: the setter handed to the runner.
SetDisabled(id, disabled) ==
    /\ OverlayUpdate(MapSet(disabledMap, id, disabled))
    /\ Did("setDisabled")

\* disableCommands.subscribe: the returned release closure.
ReleaseDisabled(id) ==
    /\ OverlayUpdate(MapDelete(disabledMap, id))
    /\ DidTo("releaseDisabled", MapHas(disabledMap, id))

\* ------------------------------------------------------------------ behaviour
\* The handler closure as derived, before any keydown.
Fresh ==
    /\ commandsArr = Commands(commandMap)
    /\ enabled = CommandsEnabled(disabledMap)
    /\ recentKeyCodes = <<>>
    /\ validCommands = <<>>
    /\ resetTimer = "off"
    /\ rankTimer = "off"
    /\ oldTimers = <<>>
    /\ calls = <<>>
    /\ fault = FALSE
    /\ windowCalls = 0
    /\ closedCalls = 0
    /\ lastOp = [op |-> "other", had |-> FALSE]

\* Both stores start as empty maps.
Init ==
    /\ commandMap = <<>>
    /\ disabledMap = <<>>
    /\ Fresh

\* Every content the two maps can have: entries with distinct ids, in any order.
MapsOver(ids, values) ==
    LET entries == UNION { {[id |-> i, v |-> x] : x \in values[i]} : i \in ids }
        seqs == UNION { [1..n -> entries] : n \in 0..Cardinality(ids) }
    IN  { m \in seqs : \A i, j \in 1..Len(m) : i # j => m[i].id # m[j].id }

\* The stores hold what earlier registrations left; the matcher starts fresh.
InitMatcher ==
    /\ commandMap \in MapsOver(RegistrantIds, CommandLists)
    /\ disabledMap \in MapsOver(DisablerIds, [id \in DisablerIds |-> BOOLEAN])
    /\ Fresh

KeyDownAny == \E event \in Events : KeyDown(event)
SetCommandsAny == \E id \in RegistrantIds : \E l \in CommandLists[id] : SetCommands(id, l)
ReleaseCommandsAny == \E id \in RegistrantIds : ReleaseCommands(id)
SetDisabledAny == \E id \in DisablerIds, d \in BOOLEAN : SetDisabled(id, d)
ReleaseDisabledAny == \E id \in DisablerIds : ReleaseDisabled(id)

Next ==
    \/ KeyDownAny
    \/ ResolutionElapse
    \/ RankFire
    \/ OldRankFire
    \/ InactivityElapse
    \/ ResetFire
    \/ SetCommandsAny
    \/ ReleaseCommandsAny
    \/ SetDisabledAny
    \/ ReleaseDisabledAny

Spec == Init /\ [][Next]_vars

\* Keydown events and timer fires against fixed stores.
NextMatcher ==
    \/ KeyDownAny
    \/ ResolutionElapse
    \/ RankFire
    \/ InactivityElapse
    \/ ResetFire

SpecMatcher == InitMatcher /\ [][NextMatcher]_vars

\* A timer that is armed fires once its delay has passed: setTimeout callbacks
\* are run by the event loop, and nothing but a new call disarms them.
SpecMatcherFair ==
    /\ SpecMatcher
    /\ WF_vars(ResolutionElapse)
    /\ WF_vars(RankFire)
    /\ WF_vars(InactivityElapse)
    /\ WF_vars(ResetFire)

\* The matcher over registrations drawn from LabelLists, the overlay empty.
InitLabels ==
    /\ commandMap \in MapsOver(RegistrantIds, LabelLists)
    /\ disabledMap = <<>>
    /\ Fresh

SpecLabels == InitLabels /\ [][NextMatcher]_vars

\* Registrations, replacements and releases on the two stores, no keydown.
NextStores ==
    \/ SetCommandsAny
    \/ ReleaseCommandsAny
    \/ SetDisabledAny
    \/ ReleaseDisabledAny

SpecStores == Init /\ [][NextStores]_vars

\* ------------------------------------------------------------------ properties
Range(s) == {s[i] : i \in 1..Len(s)}

Signature(c) == CommandKeyCodes(Cmd[c].keys)

NonEmptyKeys == \A c \in Range(commandsArr) : IsKeyedCommand(c) => Len(Cmd[c].keys) > 0

\* C1: with the stores fixed and every chorded command given a non-empty key
\* sequence, a step (one keydown, one timer fire) invokes at most one callback,
\* and no more than one callback is invoked between two consecutive moments at
\* which recentKeyCodes and validCommands are both empty.
C1_AtMostOneCallbackPerWindow ==
    NonEmptyKeys => (Len(calls) <= 1 /\ windowCalls <= 1 /\ closedCalls <= 1)

\* A keydown ran a callback synchronously and closed its window while a
\* rankAndExecute timer armed by a disputing match was still pending.
C1_Witness ==
    /\ NonEmptyKeys
    /\ Len(calls) = 1
    /\ closedCalls = 1
    /\ rankTimer = "pending"

\* C2: a rankAndExecute fire that finds validCommands empty invokes no callback
\* and raises no fault.
C2_EmptyFireIsSilent ==
    [][(RankFire /\ validCommands = <<>>) => (calls' = <<>> /\ ~fault')]_vars

\* C3: with exactly A (keys g, d) and B (keys d) registered, in either order,
\* both eligible, and g pressed from Idle: pressing d before any timer fires
\* resolves to A. Either A's callback runs in that keydown and nothing is left
\* pending, or A is the command the pending resolution will pick; and a later
\* rankAndExecute fire on that history invokes nothing but A.
C3_Registered == commandsArr \in { <<"A", "B">>, <<"B", "A">> } /\ enabled

C3_GDResolvesToA ==
    [][/\ \A event \in Events :
            ( /\ C3_Registered
              /\ recentKeyCodes = <<71>> /\ validCommands = <<>>
              /\ event.keyCode = 68 /\ ~IsInputEvent(event)
              /\ KeyDown(event) )
            => \/ calls' = <<"A">> /\ validCommands' = <<>>
               \/ /\ calls' = <<>>
                  /\ rankTimer' # "off"
                  /\ GetHighestPriorityCommand(validCommands') = "A"
       /\ (C3_Registered /\ recentKeyCodes = <<71, 68>> /\ RankFire)
            => calls' \in { <<>>, <<"A">> }
      ]_vars

\* B was registered first, matched d first and was pending; A then ran in the
\* same keydown and B was discarded.
C3_Witness ==
    /\ commandsArr = <<"B", "A">>
    /\ calls = <<"A">>
    /\ validCommands = <<>>
    /\ rankTimer = "pending"

\* C4: a rankAndExecute fire on a non-empty validCommands invokes, among the
\* candidates of highest rank and then of most modifiers, the one that comes
\* first in the flattened view, whatever the order in which they matched.
TopCandidates(valid) ==
    LET best == { c \in Range(valid) :
                    \A d \in Range(valid) : GetCommandRank(d) <= GetCommandRank(c) }
    IN  { c \in best : \A d \in best : Modifiers(d) <= Modifiers(c) }

IndexIn(arr, c) == CHOOSE i \in 1..Len(arr) : arr[i] = c /\ \A j \in 1..(i - 1) : arr[j] # c

EarliestRegistered(cs) ==
    CHOOSE c \in cs : \A d \in cs : IndexIn(commandsArr, c) <= IndexIn(commandsArr, d)

C4_EarliestRegisteredWins ==
    [][(RankFire /\ validCommands # <<>>)
        => calls' = <<EarliestRegistered(TopCandidates(validCommands))>>]_vars

\* C5: a chorded command with disabled = true and forceEnable = false is never
\* invoked and never enters validCommands.
NeverEligible(c) == IsKeyedCommand(c) /\ Cmd[c].disabled /\ ~Cmd[c].forceEnable

C5_DisabledNeverTriggers ==
    \A c \in CommandNames :
        NeverEligible(c) =>
            /\ c \notin Range(calls)
            /\ c \notin Range(validCommands)
            /\ \A i \in 1..Len(oldTimers) : c \notin Range(oldTimers[i])

\* Dd is registered, the overlay enables the command center, the history holds
\* Dd's signature, and the forceEnable command with the same keys was matched.
C5_Witness ==
    /\ "Dd" \in Range(commandsArr)
    /\ enabled
    /\ Includes(JoinCodes(recentKeyCodes), Signature("Dd"))
    /\ "F" \in Range(validCommands)
    /\ "Dd" \notin Range(validCommands)

\* C6: in every keydown, a forceEnable chorded command whose signature is in
\* recentKeyCodes when the loop reaches it, and whose required modifiers are
\* held, is matched there: its callback runs or it is pushed on validCommands,
\* whatever the global-enabled flag, its own disabled flag and the event target.
C6_ForceEnableAlwaysEligible ==
    \A event \in Events : \A i \in 1..Len(commandsArr) :
        LET c == commandsArr[i]
            before == LoopTo(1, i - 1, event, KeyDownEntry(event, Closure))
            after == Visit(c, event, before)
        IN  (IsKeyedCommand(c) /\ Cmd[c].forceEnable /\ Matches(c, event, before.hist))
            => \/ after.calls = Append(before.calls, c)
               \/ after.valid = Append(before.valid, c)

\* F, whose own disabled flag is true, is a candidate while the overlay holds a
\* true entry.
C6_Witness ==
    /\ ~enabled
    /\ "F" \in Range(validCommands)
    /\ Cmd["F"].disabled

\* C7: the value of commandsEnabled, and the enabled value of the live handler
\* closure, is true exactly when disabledMap holds no true entry.
NoTrueEntry == ~(\E i \in 1..Len(disabledMap) : disabledMap[i].v = TRUE)

C7_GlobalEnabled ==
    /\ CommandsEnabled(disabledMap) = NoTrueEntry
    /\ enabled = NoTrueEntry

\* Two registrants hold flags, one true and one false.
C7_Witness ==
    /\ Len(disabledMap) = 2
    /\ \E i, j \in 1..2 : disabledMap[i].v /\ ~disabledMap[j].v
    /\ ~enabled

\* C8: a release changes nothing but the released id's own entry: the other
\* entries keep their content and their relative order, the other map is
\* untouched, and the flattened view is the remaining lists in order.
Others(m, id) == { i \in 1..Len(m) : m[i].id # id }

KeepsOthers(m, n, id) ==
    /\ \A j \in 1..Len(n) : n[j].id # id
    /\ Len(n) = Cardinality(Others(m, id))
    /\ \A i \in Others(m, id) :
            n[Cardinality({k \in Others(m, id) : k <= i})] = m[i]

RECURSIVE ListsExcept(_, _)
ListsExcept(m, id) ==
    IF Len(m) = 0 THEN <<>>
    ELSE (IF Head(m).id = id THEN <<>> ELSE Head(m).v) \o ListsExcept(Tail(m), id)

C8_ReleaseIsolation ==
    [][/\ \A id \in RegistrantIds :
            ReleaseCommands(id) =>
                /\ KeepsOthers(commandMap, commandMap', id)
                /\ disabledMap' = disabledMap
                /\ enabled' = enabled
                /\ commandsArr' = ListsExcept(commandMap, id)
       /\ \A id \in DisablerIds :
            ReleaseDisabled(id) =>
                /\ KeepsOthers(disabledMap, disabledMap', id)
                /\ commandMap' = commandMap
                /\ commandsArr' = commandsArr
      ]_vars

\* A registrant that held a list was released while another registrant's list
\* and an overlay entry were in place.
C8_Witness ==
    /\ lastOp = [op |-> "releaseCommands", had |-> TRUE]
    /\ Len(commandMap) = 1
    /\ Len(disabledMap) > 0

\* C9: a release leaves no entry for its id, and a release of an id that has
\* no entry (never stored, or already released) changes neither map, nor the
\* flattened view, nor the enabled value, and raises no fault.
C9_ReleaseIdempotent ==
    [][/\ \A id \in RegistrantIds :
            ReleaseCommands(id) =>
                /\ ~MapHas(commandMap', id)
                /\ ~fault'
                /\ ~MapHas(commandMap, id) =>
                        /\ commandMap' = commandMap
                        /\ disabledMap' = disabledMap
                        /\ commandsArr' = commandsArr
                        /\ enabled' = enabled
       /\ \A id \in DisablerIds :
            ReleaseDisabled(id) =>
                /\ ~MapHas(disabledMap', id)
                /\ ~fault'
                /\ ~MapHas(disabledMap, id) =>
                        /\ commandMap' = commandMap
                        /\ disabledMap' = disabledMap
                        /\ commandsArr' = commandsArr
                        /\ enabled' = enabled
      ]_vars

\* An id without an entry was released while both maps held other entries.
C9_Witness ==
    /\ lastOp.op \in {"releaseCommands", "releaseDisabled"}
    /\ ~lastOp.had
    /\ Len(commandMap) > 0
    /\ Len(disabledMap) > 0

\* C10: once the inactivity timer has fired, recentKeyCodes and validCommands
\* are empty and stay so until the next keydown; and every keydown restarts the
\* inactivity delay (or resolves, leaving both arrays empty and the timer
\* cancelled), so the timer is never due right after a keydown and becomes due
\* only by a full delay passing without one.
C10_InactivityReset ==
    /\ [](lastOp.op = "resetFire" =>
            /\ recentKeyCodes = <<>>
            /\ validCommands = <<>>
            /\ resetTimer = "off"
            /\ rankTimer = "off")
    /\ [][KeyDownAny =>
            \/ resetTimer' = "pending"
            \/ resetTimer' = "off" /\ recentKeyCodes' = <<>> /\ validCommands' = <<>>]_vars
    /\ [][resetTimer' = "due" => resetTimer \in {"pending", "due"}]_vars

\* The inactivity timer has fired and cleared a history.
C10_Witness ==
    /\ lastOp.op = "resetFire"
    /\ closedCalls = 0
    /\ commandsArr # <<>>

\* C11: the flattened view is the concatenation of the registrants' lists in
\* the order in which their ids entered commandMap, each list in its own order:
\* the j-th command of the i-th entry sits at position (total length of the
\* entries before i) + j. Setting the list of an id that has an entry changes
\* that entry's list and leaves every id at its position; setting the list of a
\* new id puts it after the others.
RECURSIVE LengthBefore(_, _)
LengthBefore(m, i) == IF i <= 1 THEN 0 ELSE LengthBefore(m, i - 1) + Len(m[i - 1].v)

Ids(m) == [i \in 1..Len(m) |-> m[i].id]

C11_FlattenedViewOrder ==
    /\ [](/\ Len(commandsArr) = LengthBefore(commandMap, Len(commandMap) + 1)
          /\ \A i \in 1..Len(commandMap) : \A j \in 1..Len(commandMap[i].v) :
                commandsArr[LengthBefore(commandMap, i) + j] = commandMap[i].v[j])
    /\ [][\A id \in RegistrantIds : \A l \in CommandLists[id] :
            SetCommands(id, l) =>
                /\ Ids(commandMap') = (IF MapHas(commandMap, id) THEN Ids(commandMap)
                                       ELSE Append(Ids(commandMap), id))
                /\ \A i \in 1..Len(commandMap') :
                        commandMap'[i].v = (IF commandMap'[i].id = id THEN l
                                            ELSE commandMap[i].v)
         ]_vars

\* The first of two registrants has replaced its list: its new commands come
\* before the other registrant's.
C11_Witness ==
    /\ lastOp = [op |-> "setCommands", had |-> TRUE]
    /\ Ids(commandMap) = <<"r1", "r2">>
    /\ commandsArr = <<"X1", "X2", "Dd", "F", "P">>

\* C12: in every keydown, an eligible chorded command c that matches is treated
\* as disputing (pushed on validCommands, resolution armed) exactly when some
\* other chorded command o of the flattened view has a signature that contains
\* c's or is contained in it, with rank(c) <= rank(o). Key labels that differ
\* only in case, labels of several characters and signatures that overlap
\* across the digits of neighbouring codes are registered.
SignatureDisputes(c, allCommands) ==
    \E i \in 1..Len(allCommands) :
        LET o == allCommands[i]
        IN  /\ o # c
            /\ IsKeyedCommand(o)
            /\ (Includes(Signature(c), Signature(o)) \/ Includes(Signature(o), Signature(c)))
            /\ GetCommandRank(c) <= GetCommandRank(o)

C12_DisputeFollowsSignatures ==
    [][\A event \in Events :
        KeyDown(event) =>
            \A i \in 1..Len(commandsArr) :
                LET c == commandsArr[i]
                    before == LoopTo(1, i - 1, event, KeyDownEntry(event, Closure))
                    after == Visit(c, event, before)
                IN  (IsKeyedCommand(c) /\ Eligible(c, event)
                        /\ Matches(c, event, before.hist))
                    => ((after.valid = Append(before.valid, c) /\ after.rank = "pending")
                            <=> SignatureDisputes(c, commandsArr))
      ]_vars

\* C13: in every keydown the handler accepts, an eligible chorded command that
\* matches and has no disputing command has its callback invoked by that loop
\* iteration, which leaves recentKeyCodes and validCommands empty and the
\* inactivity timer cancelled; the commands that were in validCommands are
\* dropped uninvoked. With non-empty key sequences both arrays are still empty
\* when the keydown returns.
C13_SyncExecuteClears ==
    Len(recentKeyCodes) < MaxHist =>
        \A event \in Events : \A i \in 1..Len(commandsArr) :
            LET c == commandsArr[i]
                before == LoopTo(1, i - 1, event, KeyDownEntry(event, Closure))
                after == Visit(c, event, before)
                done == Loop(1, event, KeyDownEntry(event, Closure))
            IN  (/\ IsKeyedCommand(c)
                 /\ Eligible(c, event)
                 /\ ~HasDisputing(c, commandsArr)
                 /\ Matches(c, event, before.hist))
                => /\ after.calls = Append(before.calls, c)
                   /\ after.hist = <<>>
                   /\ after.valid = <<>>
                   /\ after.reset = "off"
                   /\ c \in Range(done.calls)
                   /\ NonEmptyKeys => (done.hist = <<>> /\ done.valid = <<>>)

\* F was pending resolution when A, which nothing disputes, matched: A ran in
\* that keydown and F was dropped while its resolution timer was still armed.
C13_Witness ==
    /\ "F" \in Range(commandsArr)
    /\ calls = <<"A">>
    /\ recentKeyCodes = <<>>
    /\ validCommands = <<>>
    /\ resetTimer = "off"
    /\ rankTimer = "pending"

\* C14: a rankAndExecute fire that finds validCommands non-empty invokes exactly
\* one callback; it is that of a member of validCommands whose rank, the number
\* of keys plus ten for each of ctrl, shift and alt that is set, is not exceeded
\* by any member; and recentKeyCodes and validCommands are both empty, with no
\* timer armed, right after the fire.
RankOf(c) ==
    Len(Cmd[c].keys)
        + 10 * Cardinality({f \in {"ctrl", "shift", "alt"} : Cmd[c][f]})

C14_FireInvokesTopRanked ==
    [][(RankFire /\ validCommands # <<>>) =>
        /\ Len(calls') = 1
        /\ calls'[1] \in Range(validCommands)
        /\ \A c \in Range(validCommands) : RankOf(c) <= RankOf(calls'[1])
        /\ ~fault'
        /\ recentKeyCodes' = <<>>
        /\ validCommands' = <<>>
        /\ resetTimer' = "off"
        /\ rankTimer' = "off"
      ]_vars

\* ctrl+d was pressed with B registered before X1 and X2: B (rank 1) was pushed
\* first, and the fire invoked a command of rank 11.
C14_Witness ==
    /\ commandsArr = <<"B", "X1", "X2">>
    /\ Len(calls) = 1
    /\ RankOf(calls[1]) = 11
    /\ recentKeyCodes = <<>>
    /\ validCommands = <<>>
    /\ rankTimer = "off"

\* C15: every member of validCommands is a chorded command of the current
\* flattened view whose signature is a contiguous part of the concatenated
\* recentKeyCodes; so validCommands is empty whenever recentKeyCodes is; and a
\* step that empties one of the two leaves the other empty as well.
C15_CandidatesMatchCurrentHistory ==
    /\ [](/\ \A c \in Range(validCommands) :
                /\ c \in Range(Commands(commandMap))
                /\ IsKeyedCommand(c)
                /\ Includes(JoinCodes(recentKeyCodes), Signature(c))
          /\ validCommands # <<>> => recentKeyCodes # <<>>)
    /\ [][/\ (validCommands # <<>> /\ validCommands' = <<>>) => recentKeyCodes' = <<>>
          /\ (recentKeyCodes # <<>> /\ recentKeyCodes' = <<>>) => validCommands' = <<>>
         ]_vars

\* F matched on g and is still a candidate after d was pressed.
C15_Witness ==
    /\ recentKeyCodes = <<71, 68>>
    /\ "F" \in Range(validCommands)
    /\ rankTimer = "pending"

\* C16: recentKeyCodes changes only when a keydown appends its key code or when
\* the whole array is cleared by the inactivity timer or by a resolution (a
\* callback run in a keydown, a rankAndExecute fire); setting or releasing a
\* command list or an availability flag leaves recentKeyCodes and validCommands
\* as they were.
C16_OnlyKeydownAndClearChangeHistory ==
    /\ [][recentKeyCodes' # recentKeyCodes =>
            \/ \E event \in Events :
                    KeyDown(event) /\ recentKeyCodes' = Append(recentKeyCodes, event.keyCode)
            \/ recentKeyCodes' = <<>> /\ (KeyDownAny \/ RankFire \/ ResetFire)
         ]_vars
    /\ [][(SetCommandsAny \/ ReleaseCommandsAny \/ SetDisabledAny \/ ReleaseDisabledAny)
            => UNCHANGED <<recentKeyCodes, validCommands>>]_vars

\* C17: when armed timers fire and keydowns do not go on for ever, the matcher
\* ends with recentKeyCodes and validCommands empty and no timer armed, and
\* stays so; so no command stays in validCommands for ever: each is invoked by
\* a fire or dropped by a clear.
C17_Quiescent ==
    /\ recentKeyCodes = <<>>
    /\ validCommands = <<>>
    /\ resetTimer = "off"
    /\ rankTimer = "off"

C17_EventuallyIdle == []<><<KeyDownAny>>_vars \/ <>[]C17_Quiescent

\* A candidate is waiting with the resolution delay elapsed and the inactivity
\* timer armed.
C17_Witness ==
    /\ validCommands # <<>>
    /\ recentKeyCodes = <<71, 68>>
    /\ rankTimer = "due"
    /\ resetTimer = "pending"

\* C18: every callback a step invokes belongs to a command that is in the
\* flattened view of commandMap at that moment and that is forceEnable or else
\* not disabled with no true entry in disabledMap; in particular none is
\* invoked for a command whose registrant has released it, or after the
\* overlay was switched on, even when the command was in validCommands with
\* rankAndExecute pending at that moment.
C18_OnlyRegisteredEligibleInvoked ==
    \A c \in Range(calls) :
        /\ c \in Range(Commands(commandMap))
        /\ Cmd[c].forceEnable \/ (~Cmd[c].disabled /\ CommandsEnabled(disabledMap))

\* C19: a command whose callback a keydown invokes is not out-ranked by another
\* command of that keydown: no other eligible chorded command of the flattened
\* view whose signature is in recentKeyCodes as the loop starts (the event's key
\* code pushed) and whose modifiers are held has a strictly higher rank.
C19_SyncWinnerNotOutranked ==
    [][\A event \in Events :
        KeyDown(event) =>
            \A c \in Range(calls') : \A o \in Range(commandsArr) \ {c} :
                (/\ IsKeyedCommand(o)
                 /\ Eligible(o, event)
                 /\ Matches(o, event, KeyDownEntry(event, Closure).hist))
                => RankOf(o) <= RankOf(c)
      ]_vars

\* C20, for the key pressed last: when the previous step was a keydown on a
\* text-entry control whose key code is still the last entry of recentKeyCodes,
\* a command without forceEnable that matches in the next keydown does so
\* through a part of the concatenated history that takes no digit from that
\* entry.
DigitsBefore(codes, k) == Len(JoinCodes(SubSeq(codes, 1, k - 1)))

\* sig occurs in the concatenation of codes clear of the digits of entry k.
OccursClearOf(codes, k, sig) ==
    LET joined == JoinCodes(codes)
        first == DigitsBefore(codes, k) + 1
        last == DigitsBefore(codes, k + 1)
    IN  \E p \in 1..(Len(joined) - Len(sig) + 1) :
            /\ SubSeq(joined, p, p + Len(sig) - 1) = sig
            /\ (p + Len(sig) - 1 < first \/ p > last)

C20_InputKeysNeverHelp ==
    [][\A event \in Events :
        (/\ lastOp.op = "keydownInput"
         /\ recentKeyCodes # <<>>
         /\ KeyDown(event)) =>
            \A i \in 1..Len(commandsArr) :
                LET c == commandsArr[i]
                    before == LoopTo(1, i - 1, event, KeyDownEntry(event, Closure))
                IN  (/\ IsKeyedCommand(c)
                     /\ ~Cmd[c].forceEnable
                     /\ Eligible(c, event)
                     /\ Matches(c, event, before.hist))
                    => OccursClearOf(before.hist, Len(recentKeyCodes), Signature(c))
      ]_vars

====
